---- MODULE Spec2Model ----
(***************************************************************************)
(* Model of output-analysis/watchdog-script.py: the watcher that runs the  *)
(* two GrandQC stages on every new .svs file of a directory.               *)
(*                                                                         *)
(* Threads of the program: the main thread (__main__ and start_watching),  *)
(* the observer's emitter (it queues the filesystem's creation events) and *)
(* the observer's dispatch thread, which takes one event at a time from    *)
(* the queue and calls SVSHandler.on_created with it.                      *)
(***************************************************************************)
EXTENDS Integers, Sequences, FiniteSets, TLC

\* ------------------------------------------------------------------ bounds
\* Creation events the filesystem delivers in one run of the model.
MaxEvents == 3
\* Size readings of one stability wait after which the file no longer changes.
MaxPolls == 3
\* Length of a scripted sequence of size readings (specification GateSpec).
MaxTimeline == 5

\* ------------------------------------------------------- paths and events
\* A path is its sequence of characters, so that lower() and endswith()
\* are computed on it.
PathA == <<"a", ".", "s", "v", "s">>
PathB == <<"b", ".", "S", "V", "S">>
PathT == <<"c", ".", "t", "x", "t">>
PathD == <<"d", ".", "s", "v", "s">>
NoPath == << >>

Paths == {PathA, PathB, PathT, PathD}

\* The creation events of the model: three files and one directory.
Events ==
    {[src_path |-> PathA, is_directory |-> FALSE],
     [src_path |-> PathB, is_directory |-> FALSE],
     [src_path |-> PathT, is_directory |-> FALSE],
     [src_path |-> PathD, is_directory |-> TRUE]}

\* str.lower(), character by character.
LowerChar(c) ==
    CASE c = "S" -> "s"
      [] c = "V" -> "v"
      [] OTHER -> c

Lower(s) == [i \in 1..Len(s) |-> LowerChar(s[i])]

\* str.endswith(suffix).
EndsWith(s, suffix) ==
    /\ Len(s) >= Len(suffix)
    /\ SubSeq(s, Len(s) - Len(suffix) + 1, Len(s)) = suffix

SvsSuffix == <<".", "s", "v", "s">>

\* The filter of on_created: a file whose lower-cased path ends in .svs.
QualifiesAsDirectoryToo(event) == EndsWith(Lower(event.src_path), SvsSuffix)
Qualifies(event) ==
    /\ ~event.is_directory
    /\ EndsWith(Lower(event.src_path), SvsSuffix)

\* ------------------------------------------------------------ environment
\* What one os.path.getsize call gives: a size, or OSError (the file is
\* gone or unreadable), written as a reading that is no size.
Sizes == {0, 10}
OSErr == -2
Readings == Sizes \cup {OSErr}
\* The readings of a scripted sequence.
ScriptedReadings == {0, 10, 20, OSErr}

\* How a stage's subprocess.run(..., check=True) ends: exit status 0, a
\* non-zero exit status (CalledProcessError), or the process cannot be run
\* at all (OSError from subprocess.run).
StageResults == {"exit0", "nonzero", "error"}

Raised(result) ==
    CASE result = "nonzero" -> "CalledProcessError"
      [] result = "error" -> "OSError"
      [] OTHER -> "none"

\* The exception classes the stages can raise that derive from Exception.
ExceptionClasses == {"CalledProcessError", "OSError"}

\* How one handling of a qualifying creation event ended, as the handler
\* logs it ("none": no handling of the path has ended yet).
Outcomes ==
    {"none", "skipped", "unavailable", "stage1failed", "stage2failed",
     "error", "completed"}

\* ---------------------------------------------------------------- state
VARIABLES
    argc,             \* len(sys.argv)
    inputExists,      \* os.path.exists(input_dir)
    outputExists,     \* the output directory exists
    mainpc,           \* where the main thread is
    observer,         \* the observer: unstarted, running, failed or stopped
    queue,            \* the observer's event queue
    emitted,          \* creation events delivered so far
    processed_files,  \* SVSHandler.processed_files
    h,                \* per dispatch thread: the on_created call it is in
    log,              \* the handler's log of finished handlings: path, outcome
    s1calls,          \* per path: stage 1 invocations
    s2calls,          \* per path: stage 2 invocations
    timeline,         \* the scripted size readings (GateSpec only)
    mask,             \* analyze_mask: the pixels of the mask image
    maskpc,           \* analyze_mask: not called, called or returned
    percentages,      \* analyze_mask: the dictionary returned
    divisors          \* analyze_mask: the denominators it has divided by

vars ==
    <<argc, inputExists, outputExists, mainpc, observer, queue, emitted,
      processed_files, h, log, s1calls, s2calls, timeline,
      mask, maskpc, percentages, divisors>>

\* The variables of the report generator, which the watcher never touches.
maskVars == <<mask, maskpc, percentages, divisors>>

\* No mask is being analysed.
MaskIdle ==
    /\ mask = << >>
    /\ maskpc = "none"
    /\ percentages = << >>
    /\ divisors = {}

\* The observer runs one dispatch thread (one Observer is created).
NumDispatchThreadsTwo == 1 + 1
NumDispatchThreads == 1

Threads == 1..NumDispatchThreads

\* "file_size = -1": the value the first reading is compared with.
InitialFileSizeZero == -1 + 1
InitialFileSize == -1

\* A dispatch thread outside on_created. In on_created a thread keeps the
\* path, the file_size of the stability loop, the size readings taken so
\* far and how stage 1 ended.
Idle ==
    [pc |-> "idle", path |-> NoPath, file_size |-> InitialFileSize,
     readings |-> << >>, stage1 |-> "none"]

\* How the last finished handling of p ended.
Last(p) ==
    LET at == {i \in 1..Len(log) : log[i].path = p}
    IN IF at = {} THEN "none"
       ELSE log[CHOOSE i \in at : \A j \in at : j <= i].outcome

\* Some handling of p has seen both stages exit 0.
Completed(p) == \E i \in 1..Len(log) : log[i] = [path |-> p, outcome |-> "completed"]

Logged(p, outcome) == Append(log, [path |-> p, outcome |-> outcome])

\* The on_created calls that have passed the ledger check for p and have
\* not returned.
InFlight(p) == {t \in Threads : h[t].pc \in {"poll", "stage1", "stage2"} /\ h[t].path = p}

Init ==
    /\ argc \in {2, 3, 4}
    /\ inputExists \in BOOLEAN
    /\ outputExists \in BOOLEAN
    /\ mainpc = "main"
    /\ observer = "unstarted"
    /\ queue = << >>
    /\ emitted = 0
    /\ processed_files = {}
    /\ h = [t \in Threads |-> Idle]
    /\ log = << >>
    /\ s1calls = [p \in Paths |-> 0]
    /\ s2calls = [p \in Paths |-> 0]
    /\ timeline = << >>
    /\ MaskIdle

\* ------------------------------------------------------------ main thread
mainVars == <<argc, inputExists, outputExists, mainpc>>
handlerVars == <<processed_files, h, log, s1calls, s2calls>>

\* "if len(sys.argv) != 3" and "if not os.path.exists(input_dir)".
ArgsRejectedByCountOnly == argc /= 3
ArgsRejected == argc /= 3 \/ ~inputExists

\* __main__: the argument count and the input directory are checked;
\* sys.exit(1) when either is wrong.
CheckArgs ==
    /\ mainpc = "main"
    /\ mainpc' = IF ArgsRejected THEN "exit1" ELSE "start"
    /\ UNCHANGED <<argc, inputExists, outputExists, observer, queue, emitted,
                   handlerVars, timeline, maskVars>>

\* start_watching up to observer.start(): the output directory is made, the
\* handler is constructed with an empty processed_files, the observer runs.
StartWatching ==
    /\ mainpc = "start"
    /\ outputExists' = TRUE
    /\ processed_files' = {}
    /\ observer' = "running"
    /\ mainpc' = "sleep"
    /\ UNCHANGED <<argc, inputExists, queue, emitted, h, log, s1calls,
                   s2calls, timeline, maskVars>>

\* time.sleep(1) returns; nothing is looked at before the next iteration.
SleepReturn ==
    /\ mainpc = "sleep"
    /\ mainpc' = "loop"
    /\ UNCHANGED <<argc, inputExists, outputExists, observer, queue, emitted,
                   handlerVars, timeline, maskVars>>

\* while True: the next time.sleep(1) starts, whatever the observer's state.
LoopAgain ==
    /\ mainpc = "loop"
    /\ mainpc' = "sleep"
    /\ UNCHANGED <<argc, inputExists, outputExists, observer, queue, emitted,
                   handlerVars, timeline, maskVars>>

\* What observer.stop() leaves the observer in.
StoppedForgotten == observer
Stopped == "stopped"

\* Ctrl+C: KeyboardInterrupt is raised in the main thread inside the loop,
\* and the except clause calls observer.stop().
Interrupt ==
    /\ mainpc \in {"sleep", "loop"}
    /\ observer' = Stopped
    /\ mainpc' = "join"
    /\ UNCHANGED <<argc, inputExists, outputExists, queue, emitted,
                   handlerVars, timeline, maskVars>>

\* observer.join(): returns once the dispatch thread has left its handler.
Join ==
    /\ mainpc = "join"
    /\ \A t \in Threads : h[t].pc \in {"idle", "dead"}
    /\ mainpc' = "exited"
    /\ UNCHANGED <<argc, inputExists, outputExists, observer, queue, emitted,
                   handlerVars, timeline, maskVars>>

\* ------------------------------------------------------------ the observer
\* The watched directory is removed or becomes inaccessible: the emitter
\* ends. Nothing is raised in the main thread.
WatchSourceFails ==
    /\ observer = "running"
    /\ observer' = "failed"
    /\ UNCHANGED <<mainVars, queue, emitted, handlerVars, timeline, maskVars>>

\* The emitter queues a creation event.
Emit ==
    /\ observer = "running"
    /\ emitted < MaxEvents
    /\ \E e \in Events : queue' = Append(queue, e)
    /\ emitted' = emitted + 1
    /\ UNCHANGED <<mainVars, observer, handlerVars, timeline, maskVars>>

\* ------------------------------------------------------------- on_created
\* "if file_path in self.processed_files".
AlreadyProcessedNever(p) == FALSE
AlreadyProcessed(p) == p \in processed_files

\* The dispatch thread takes the next event and calls on_created: the
\* filter, the ledger check, and the start of the stability wait.
Dispatch(t) ==
    /\ observer \in {"running", "failed"}
    /\ queue /= << >>
    /\ h[t].pc = "idle"
    /\ LET event == Head(queue)
           p == event.src_path
       IN /\ queue' = Tail(queue)
          /\ IF ~Qualifies(event)
             THEN /\ log' = log
                  /\ h' = h
             ELSE IF AlreadyProcessed(p)
             THEN /\ log' = Logged(p, "skipped")
                  /\ h' = h
             ELSE /\ log' = log
                  /\ h' = [h EXCEPT ![t] = [Idle EXCEPT !.pc = "poll", !.path = p]]
    /\ UNCHANGED <<mainVars, observer, emitted, processed_files, s1calls,
                   s2calls, timeline, maskVars>>

\* "if current_size == file_size".
SameSizeOrLarger(current_size, file_size) == current_size >= file_size
SameSize(current_size, file_size) == current_size = file_size

\* The wait ends ("break") and stage 1 (wsi_tis_detect.py) is invoked.
InvokeStage1(t, seen) ==
    /\ h' = [h EXCEPT ![t].pc = "stage1", ![t].readings = seen]
    /\ log' = log
    /\ s1calls' = [s1calls EXCEPT ![h[t].path] = @ + 1]

\* "except OSError": the error is logged and on_created returns.
UnavailableBreaks(t, seen) == InvokeStage1(t, seen)
Unavailable(t, seen) ==
    /\ h' = [h EXCEPT ![t] = Idle]
    /\ log' = Logged(h[t].path, "unavailable")
    /\ s1calls' = s1calls

\* One iteration of the stability loop with the reading r of
\* os.path.getsize: OSError ends the handling, a reading equal to the
\* previous one ends the wait, any other reading is kept and the loop
\* sleeps.
PollStep(t, r) ==
    LET seen == Append(h[t].readings, r)
    IN IF r = OSErr
       THEN Unavailable(t, seen)
       ELSE IF SameSize(r, h[t].file_size)
       THEN InvokeStage1(t, seen)
       ELSE /\ h' = [h EXCEPT ![t].file_size = r, ![t].readings = seen]
            /\ log' = log
            /\ s1calls' = s1calls

\* The stability wait polls the file; after MaxPolls readings the file has
\* its final size (or is gone).
Poll(t) ==
    /\ h[t].pc = "poll"
    /\ timeline = << >>
    /\ \E r \in Readings :
          /\ Len(h[t].readings) < MaxPolls \/ r \in {h[t].file_size, OSErr}
          /\ PollStep(t, r)
    /\ UNCHANGED <<mainVars, observer, queue, emitted, processed_files,
                   s2calls, timeline, maskVars>>

\* "except subprocess.CalledProcessError" and "except Exception".
CaughtOnlyCalledProcessError(exc) == exc = "CalledProcessError"
Caught(exc) == exc = "CalledProcessError" \/ exc \in ExceptionClasses

\* The handler's way out of the try block when a stage raises: the error is
\* logged and on_created returns; an exception no clause catches ends the
\* dispatch thread.
StageRaises(t, stage, exc) ==
    LET p == h[t].path
    IN IF Caught(exc)
       THEN /\ h' = [h EXCEPT ![t] = Idle]
            /\ log' = Logged(p, IF exc = "CalledProcessError" THEN stage ELSE "error")
       ELSE /\ h' = [h EXCEPT ![t] = [Idle EXCEPT !.pc = "dead"]]
            /\ log' = Logged(p, "error")

\* check=True: the results of stage 1 after which the handler goes on.
Stage1PassesAlways(result) == TRUE
Stage1Passes(result) == result = "exit0"

\* Stage 1 ends: with exit status 0 stage 2 (main.py) is invoked, otherwise
\* check=True raises. The locals of the stability wait are not read again
\* and are dropped here.
Stage1Exit(t) ==
    /\ h[t].pc = "stage1"
    /\ \E result \in StageResults :
          IF Stage1Passes(result)
          THEN /\ h' = [h EXCEPT ![t] = [Idle EXCEPT !.pc = "stage2",
                                                       !.path = h[t].path,
                                                       !.stage1 = result]]
               /\ s2calls' = [s2calls EXCEPT ![h[t].path] = @ + 1]
               /\ log' = log
          ELSE /\ StageRaises(t, "stage1failed", Raised(result))
               /\ s2calls' = s2calls
    /\ UNCHANGED <<mainVars, observer, queue, emitted, processed_files,
                   s1calls, timeline, maskVars>>

\* "self.processed_files.add(file_path)", reached when stage 2 exits 0.
LedgerAddAlways(ledger, p, result) == ledger \cup {p}
LedgerAdd(ledger, p, result) == IF result = "exit0" THEN ledger \cup {p} ELSE ledger

\* Stage 2 ends: with exit status 0 the path is added to processed_files,
\* otherwise check=True raises.
Stage2Exit(t) ==
    /\ h[t].pc = "stage2"
    /\ \E result \in StageResults :
          /\ processed_files' = LedgerAdd(processed_files, h[t].path, result)
          /\ IF result = "exit0"
             THEN /\ h' = [h EXCEPT ![t] = Idle]
                  /\ log' = Logged(h[t].path, "completed")
             ELSE StageRaises(t, "stage2failed", Raised(result))
    /\ UNCHANGED <<mainVars, observer, queue, emitted, s1calls, s2calls,
                   timeline, maskVars>>

\* ------------------------------------------------------- the specification
Next ==
    \/ CheckArgs
    \/ StartWatching
    \/ SleepReturn
    \/ LoopAgain
    \/ Interrupt
    \/ Join
    \/ WatchSourceFails
    \/ Emit
    \/ \E t \in Threads : Dispatch(t)
    \/ \E t \in Threads : Poll(t)
    \/ \E t \in Threads : Stage1Exit(t)
    \/ \E t \in Threads : Stage2Exit(t)

Spec == Init /\ [][Next]_vars

\* ------------------------------------- the stability wait on scripted sizes
\* Every sequence of at most MaxTimeline readings.
Timelines == UNION {[1..n -> ScriptedReadings] : n \in 1..MaxTimeline}

\* on_created has passed the filter and the ledger check for a.svs and is
\* about to take its first reading; the successive readings of
\* os.path.getsize are given by a script.
GateInit ==
    /\ argc = 3
    /\ inputExists = TRUE
    /\ outputExists = TRUE
    /\ mainpc = "sleep"
    /\ observer = "running"
    /\ queue = << >>
    /\ emitted = 1
    /\ processed_files = {}
    /\ h = [t \in Threads |-> [Idle EXCEPT !.pc = "poll", !.path = PathA]]
    /\ log = << >>
    /\ s1calls = [p \in Paths |-> 0]
    /\ s2calls = [p \in Paths |-> 0]
    /\ timeline \in Timelines
    /\ MaskIdle

\* The next iteration of the stability loop reads the script's next entry.
GatePoll(t) ==
    /\ h[t].pc = "poll"
    /\ Len(h[t].readings) < Len(timeline)
    /\ PollStep(t, timeline[Len(h[t].readings) + 1])
    /\ UNCHANGED <<mainVars, observer, queue, emitted, processed_files,
                   s2calls, timeline, maskVars>>

GateNext == \E t \in Threads : GatePoll(t)

GateSpec == GateInit /\ [][GateNext]_vars

\* ------------------------------------------------------------- properties
FailedOutcomes == {"stage1failed", "stage2failed"}

\* In this step thread t passes the ledger check for p and starts its wait.
StartsHandling(t, p) ==
    /\ h[t].pc = "idle"
    /\ h'[t].pc = "poll"
    /\ h'[t].path = p

\* In this step the dispatch thread takes a creation event for p.
TakesEventFor(p) ==
    /\ queue /= << >>
    /\ Head(queue).src_path = p
    /\ queue' = Tail(queue)

\* C1: once a handling of p has ended with both stages exiting 0, no later
\* step invokes stage 1 or stage 2 for p or starts a stability wait for p,
\* whatever events follow: p stays Completed.
C1_CompletedNeverReprocessed ==
    [][\A p \in Paths :
          Completed(p) =>
             /\ s1calls'[p] = s1calls[p]
             /\ s2calls'[p] = s2calls[p]
             /\ InFlight(p)' = {}
             /\ Completed(p)'
             /\ p \in processed_files']_vars

\* a.svs completed, an event for b.SVS was handled after that, and a later
\* event for a.svs was then skipped.
C1_Witness ==
    \E i, j, k \in 1..Len(log) :
       /\ i < j
       /\ j < k
       /\ log[i] = [path |-> PathA, outcome |-> "completed"]
       /\ log[j].path = PathB
       /\ log[k] = [path |-> PathA, outcome |-> "skipped"]

C3_Stage2OnlyAfterStage1Ok ==
    [][/\ \A p \in Paths :
             s2calls'[p] /= s2calls[p] =>
                \E t \in Threads :
                   /\ h[t].pc = "stage1"
                   /\ h[t].path = p
                   /\ h'[t].pc = "stage2"
                   /\ h'[t].stage1 = "exit0"
                   /\ s2calls'[p] = s2calls[p] + 1
       /\ \A t \in Threads :
             (h[t].pc = "stage1" /\ h'[t].pc /= "stage1" /\ h'[t].stage1 /= "exit0")
                => (s2calls' = s2calls /\ h'[t].pc = "idle")]_vars

\* Stage 1 of a.svs exited non-zero and stage 2 was never invoked for it.
C3_Witness ==
    /\ Last(PathA) = "stage1failed"
    /\ s1calls[PathA] = 1
    /\ s2calls[PathA] = 0

\* C4: after a handling of p in which stage 1 or stage 2 exited non-zero, p
\* is not in processed_files; the failing step returns the thread to idle;
\* a handling of p only ever starts by taking a creation event for p from
\* the queue; and the next creation event for p that is taken starts a new
\* handling, with a fresh stability wait and no stage result.
C4_FailureReleasesPath ==
    /\ [](\A p \in Paths : Last(p) \in FailedOutcomes => p \notin processed_files)
    /\ [][\A p \in Paths :
             /\ (log' /= log /\ Last(p)' \in FailedOutcomes) =>
                   \A t \in Threads : h[t].path = p => h'[t] = Idle
             /\ \A t \in Threads : StartsHandling(t, p) => TakesEventFor(p)
             /\ (TakesEventFor(p) /\ Last(p) \in FailedOutcomes) =>
                   \E t \in Threads :
                      /\ StartsHandling(t, p)
                      /\ h'[t] = [Idle EXCEPT !.pc = "poll", !.path = p]]_vars

\* Stage 2 of a.svs exited non-zero, and a later creation event for a.svs
\* has stage 1 running again.
C4_Witness ==
    /\ Last(PathA) = "stage2failed"
    /\ \E t \in Threads : h[t].pc = "stage1" /\ h[t].path = PathA
    /\ s1calls[PathA] = 2

\* The readings end with two equal sizes and hold no error.
EndsStable(readings) ==
    /\ Len(readings) >= 2
    /\ readings[Len(readings)] = readings[Len(readings) - 1]
    /\ \A i \in 1..Len(readings) : readings[i] /= OSErr

\* C5: whenever a stage is invoked for a file, the handling that invokes it
\* has taken at least two size readings and the last two are equal: stage 1
\* is invoked in the step that takes such a reading, stage 2 by a handling
\* whose stage 1 was.
C5_StagesOnlyAfterStable ==
    [][\A p \in Paths :
          /\ s1calls'[p] /= s1calls[p] =>
                \E t \in Threads :
                   /\ h'[t].path = p
                   /\ h'[t].pc = "stage1"
                   /\ EndsStable(h'[t].readings)
          /\ s2calls'[p] /= s2calls[p] =>
                \E t \in Threads :
                   /\ h[t].path = p
                   /\ h[t].pc = "stage1"
                   /\ EndsStable(h[t].readings)]_vars

\* A file whose first observed size is 0: stage 1 runs after the readings
\* 0, 0.
C5_Witness ==
    \E t \in Threads : h[t].pc = "stage1" /\ h[t].readings = <<0, 0>>

\* The readings of the example: a plateau at 10, then 20.
Script10_10_20 == <<10, 10, 20, 20, 20>>

\* The wait on script tl ends at reading k: reading k is the first that
\* equals the reading before it, and no reading up to k is an error.
FirstEqualPairAt(tl, k) ==
    /\ k >= 2
    /\ k <= Len(tl)
    /\ tl[k] = tl[k - 1]
    /\ \A i \in 1..k : tl[i] /= OSErr
    /\ \A j \in 2..(k - 1) : tl[j] /= tl[j - 1]

\* C6 as stated: on the readings 10, 10, 20, 20, 20 the wait returns Stable
\* only on a reading that confirms 20 == 20.
C6_StableOnlyAtTail ==
    \A t \in Threads :
       (timeline = Script10_10_20 /\ h[t].pc = "stage1") =>
          /\ Len(h[t].readings) >= 4
          /\ h[t].readings[Len(h[t].readings)] = 20
          /\ h[t].readings[Len(h[t].readings) - 1] = 20

\* C6 amended: the wait returns Stable at the first reading that equals
\* the one before it; on the readings 10, 10, 20, 20, 20 that is the second
\* reading (10 == 10), and the tail is never read.
C6_StableAtFirstEqualPair ==
    \A t \in Threads :
       h[t].pc = "stage1" =>
          /\ h[t].readings = SubSeq(timeline, 1, Len(h[t].readings))
          /\ FirstEqualPairAt(timeline, Len(h[t].readings))
          /\ timeline = Script10_10_20 => h[t].readings = <<10, 10>>

\* The wait on the readings 10, 10, 20, 20, 20 has returned Stable.
C6_Witness ==
    \E t \in Threads :
       /\ timeline = Script10_10_20
       /\ h[t].pc = "stage1"
       /\ h[t].readings = <<10, 10>>

\* C7: a handling whose size reading raises OSError ends in that step: the
\* thread returns to idle, no stage is invoked and processed_files is left
\* as it is; no handling goes on after such a reading; the path is not in
\* processed_files afterwards, and the next creation event for it that is
\* taken starts a new handling.
C7_UnavailableAborts ==
    /\ [](/\ \A t \in Threads : \A i \in 1..Len(h[t].readings) : h[t].readings[i] /= OSErr
          /\ \A p \in Paths : Last(p) = "unavailable" => p \notin processed_files)
    /\ [][\A p \in Paths :
             /\ log' = Logged(p, "unavailable") =>
                   /\ processed_files' = processed_files
                   /\ s1calls' = s1calls
                   /\ s2calls' = s2calls
                   /\ \A t \in Threads : h[t].path = p => h'[t] = Idle
             /\ (TakesEventFor(p) /\ Last(p) = "unavailable") =>
                   \E t \in Threads : StartsHandling(t, p)]_vars

\* a.svs was unavailable during its wait, and a later creation event for
\* a.svs has reached stage 1.
C7_Witness ==
    /\ Last(PathA) = "unavailable"
    /\ s1calls[PathA] = 1
    /\ \E t \in Threads : h[t].pc = "stage1" /\ h[t].path = PathA

\* The outcomes that are per-file failures.
PerFileFailures == {"unavailable", "stage1failed", "stage2failed", "error"}

\* C8: no failure of a handling ends the dispatch thread or touches the
\* main thread or the observer: the step that logs the failure leaves the
\* thread idle, and while the observer runs, a creation event for a
\* qualifying file not yet processed is taken by starting its handling.
C8_FailuresContained ==
    /\ [](\A t \in Threads : h[t].pc \in {"idle", "poll", "stage1", "stage2"})
    /\ [][/\ (log' /= log /\ log'[Len(log')].outcome \in PerFileFailures) =>
                /\ \A t \in Threads : h'[t].pc = "idle"
                /\ mainpc' = mainpc
                /\ observer' = observer
          /\ \A p \in Paths :
                (/\ TakesEventFor(p)
                 /\ Qualifies(Head(queue))
                 /\ p \notin processed_files)
                   => \E t \in Threads : StartsHandling(t, p)]_vars

\* The stages of a.svs could not be run (an error other than a non-zero
\* exit), and b.SVS, handled after that, reached Completed.
C8_Witness ==
    \E i, j \in 1..Len(log) :
       /\ i < j
       /\ log[i] = [path |-> PathA, outcome |-> "error"]
       /\ log[j] = [path |-> PathB, outcome |-> "completed"]

\* C9 as stated: once the watch source has failed the main thread does not
\* go on sleeping: it does not start another time.sleep.
C9_WatchFailureEndsProcess ==
    [][(observer = "failed" /\ mainpc = "loop") => mainpc' /= "sleep"]_vars

\* C10: once the main thread has returned from observer.stop(), no creation
\* event is queued, none is taken from the queue, and no idle dispatch
\* thread enters on_created.
C10_NoEventAfterStop ==
    [][(mainpc \in {"join", "exited"}) =>
          (/\ queue' = queue
           /\ emitted' = emitted
           /\ \A t \in Threads : h[t].pc = "idle" => h'[t].pc = "idle"
           /\ \A p \in Paths :
                 s1calls'[p] /= s1calls[p] =>
                    \E t \in Threads : h[t].pc = "poll" /\ h[t].path = p)]_vars

\* The process has exited after the interrupt with a creation event for a
\* qualifying file still in the queue.
C10_Witness ==
    /\ mainpc = "exited"
    /\ queue /= << >>
    /\ Qualifies(Head(queue))

\* ---------------------------------------------------------------- fairness
\* What the scheduling of the program's own threads guarantees: the main
\* thread gets through its checks, start-up and observer.join(), and a
\* dispatch thread in the stability loop takes its next reading. The stage
\* processes are other programs: nothing makes them exit.
FairSpec ==
    /\ Spec
    /\ WF_vars(CheckArgs)
    /\ WF_vars(StartWatching)
    /\ WF_vars(Join)
    /\ \A t \in Threads : WF_vars(Poll(t))

\* C11 as stated: once the interrupt has been handled and the observer
\* stopped, the process eventually exits.
C11_ShutdownCompletes ==
    (mainpc = "join") ~> (mainpc = "exited")

\* C12: with a wrong argument count (len(sys.argv) /= 3) or a missing
\* input directory the process ends with exit status 1 and nothing has
\* started: the output directory is never created, the observer is never
\* started, no event is queued or handled. In every other run the output
\* directory exists whenever the observer has been started.
C12_BadArgumentsStartNothing ==
    /\ []((argc /= 3 \/ ~inputExists) =>
             /\ mainpc \in {"main", "exit1"}
             /\ observer = "unstarted"
             /\ emitted = 0
             /\ queue = << >>
             /\ log = << >>
             /\ \A t \in Threads : h[t] = Idle)
    /\ [](observer /= "unstarted" => outputExists)
    /\ [][(argc /= 3 \/ ~inputExists) => outputExists' = outputExists]_vars
    /\ [][mainpc = "main" => mainpc' = IF argc = 3 /\ inputExists THEN "start" ELSE "exit1"]_vars

\* Two arguments are given, the input directory does not exist and neither
\* does the output directory: the process has exited with status 1.
C12_Witness ==
    /\ mainpc = "exit1"
    /\ argc = 3
    /\ ~inputExists
    /\ ~outputExists

\* The name ends in the extension .svs, in either case of its letters.
NameEndsInSvs(path) ==
    /\ Len(path) >= 4
    /\ path[Len(path) - 3] = "."
    /\ path[Len(path) - 2] \in {"s", "S"}
    /\ path[Len(path) - 1] \in {"v", "V"}
    /\ path[Len(path)] \in {"s", "S"}

\* C13: taking a creation event for a directory, or for a file whose name
\* does not end in .svs (letters in either case), changes nothing but the
\* queue: no stability wait starts, no stage is invoked, processed_files
\* and the log are unchanged. A handling only ever starts for a file whose
\* name ends in .svs.
C13_OtherEventsIgnored ==
    [][/\ (/\ queue /= << >>
           /\ queue' = Tail(queue)
           /\ (Head(queue).is_directory \/ ~NameEndsInSvs(Head(queue).src_path)))
          => UNCHANGED <<h, processed_files, log, s1calls, s2calls>>
       /\ \A t \in Threads :
             (h[t].pc = "idle" /\ h'[t].pc /= "idle") =>
                /\ queue /= << >>
                /\ ~Head(queue).is_directory
                /\ NameEndsInSvs(Head(queue).src_path)
                /\ h'[t].path = Head(queue).src_path]_vars

\* Two creation events were delivered and both were taken, yet no handling
\* has started or ended and no stage has run: both were ignored.
C13_Witness ==
    /\ emitted = 2
    /\ queue = << >>
    /\ observer = "running"
    /\ \A t \in Threads : h[t] = Idle
    /\ log = << >>
    /\ \A p \in Paths : s1calls[p] = 0

\* ----------------------------------------------------- the report generator
\* The largest number of pixels of a mask, the example mask apart.
MaxPixels == 3

\* GrandQCAnalyzer.artifact_classes.
artifact_classes ==
    [i \in 1..7 |->
        CASE i = 1 -> "Normal Tissue"
          [] i = 2 -> "Tissue Fold"
          [] i = 3 -> "Dark Spot/Foreign"
          [] i = 4 -> "Pen Marking"
          [] i = 5 -> "Air Bubble/Edge"
          [] i = 6 -> "Out of Focus"
          [] i = 7 -> "Background"]

\* The class index of the background.
Background == 7

\* A mask of 500 background pixels, 50 pixels of class 2 and 50 of class 1.
ExampleMask ==
    [i \in 1..600 |-> IF i <= 500 THEN 7 ELSE IF i <= 550 THEN 2 ELSE 1]

\* The masks analysed: the pixels of the image in reading order.
Masks == UNION {[1..n -> 1..7] : n \in 1..MaxPixels} \cup {ExampleMask}

\* np.sum(mask == class_idx).
PixelsOf(m, class_idx) == Cardinality({i \in DOMAIN m : m[i] = class_idx})

\* np.sum(mask != 7).
AllPixels(m) == Len(m)
total_tissue_pixels(m) == Cardinality({i \in DOMAIN m : m[i] /= Background})

\* The test that returns zeros without dividing.
NoTissueNever(total) == FALSE
NoTissue(total) == total = 0

\* Percentages are held in hundredths of a percent: 50.0 is 5000. NaN is
\* what numpy yields for 0 / 0, and round(nan, 2) is nan.
NaN == -1

\* round(pixels / total * 100, 2) in hundredths: the nearest hundredth, a
\* tie going to the even one.
Round2(pixels, total) ==
    LET v == pixels * 10000
        q == v \div total
        r == v % total
    IN  IF 2 * r < total THEN q
        ELSE IF 2 * r > total THEN q + 1
        ELSE IF q % 2 = 0 THEN q ELSE q + 1

Percentage(pixels, total) ==
    IF total = 0 THEN NaN ELSE Round2(pixels, total)

\* The names of the classes the loop does not skip.
ReportedNames == {artifact_classes[i] : i \in {c \in 1..7 : c /= Background}}
ClassOf(class_name) == CHOOSE i \in 1..7 : artifact_classes[i] = class_name

\* analyze_mask has opened a mask and is about to count its pixels.
MaskInit ==
    /\ argc = 3
    /\ inputExists = TRUE
    /\ outputExists = TRUE
    /\ mainpc = "main"
    /\ observer = "unstarted"
    /\ queue = << >>
    /\ emitted = 0
    /\ processed_files = {}
    /\ h = [t \in Threads |-> Idle]
    /\ log = << >>
    /\ s1calls = [p \in Paths |-> 0]
    /\ s2calls = [p \in Paths |-> 0]
    /\ timeline = << >>
    /\ mask \in Masks
    /\ maskpc = "called"
    /\ percentages = << >>
    /\ divisors = {}

\* No pixel is tissue: every class but the background is reported as 0.0.
ReturnZeros ==
    /\ maskpc = "called"
    /\ NoTissue(total_tissue_pixels(mask))
    /\ percentages' = [class_name \in {artifact_classes[i] : i \in 1..6} |-> 0]
    /\ maskpc' = "returned"
    /\ UNCHANGED <<mainVars, observer, queue, emitted, handlerVars, timeline,
                   mask, divisors>>

\* The loop over the classes: each class but the background is reported as
\* its share of the tissue pixels.
ComputePercentages ==
    /\ maskpc = "called"
    /\ ~NoTissue(total_tissue_pixels(mask))
    /\ percentages' =
          [class_name \in ReportedNames |->
              Percentage(PixelsOf(mask, ClassOf(class_name)),
                         total_tissue_pixels(mask))]
    /\ divisors' = divisors \cup {total_tissue_pixels(mask)}
    /\ maskpc' = "returned"
    /\ UNCHANGED <<mainVars, observer, queue, emitted, handlerVars, timeline,
                   mask>>

MaskNext == ReturnZeros \/ ComputePercentages

MaskSpec == MaskInit /\ [][MaskNext]_vars

\* The six classes other than the background, by name.
SixClasses ==
    {"Normal Tissue", "Tissue Fold", "Dark Spot/Foreign", "Pen Marking",
     "Air Bubble/Edge", "Out of Focus"}

\* C14: for a mask whose every pixel is class 7, analyze_mask returns
\* exactly the six non-background classes, each 0.0, and has divided by
\* nothing.
C14_NoTissueGivesZeros ==
    (maskpc = "returned" /\ \A i \in 1..Len(mask) : mask[i] = 7) =>
        /\ DOMAIN percentages = SixClasses
        /\ \A class_name \in SixClasses : percentages[class_name] = 0
        /\ divisors = {}

\* A mask of three background pixels has been analysed.
C14_Witness ==
    /\ maskpc = "returned"
    /\ mask = <<7, 7, 7>>
    /\ percentages["Tissue Fold"] = 0

\* The pixels of the analysed mask that are of class c.
Pixels(c) == Cardinality({i \in 1..Len(mask) : mask[i] = c})

\* C15 as stated: with at least one non-background pixel, the value
\* reported for each class c in 1..6 is exactly
\* count(c) / (pixels - count(7)) * 100.
C15_ExactQuotient ==
    (maskpc = "returned" /\ Len(mask) - Pixels(7) > 0) =>
        \A c \in 1..6 :
            percentages[artifact_classes[c]] * (Len(mask) - Pixels(7))
                = Pixels(c) * 10000

\* C15: with at least one non-background pixel, the value reported for
\* each class c in 1..6 is count(c) / (pixels - count(7)) * 100 rounded to
\* the nearest hundredth; 500 background pixels and 100 tissue pixels of
\* which 50 are class 2 give 50.0 for class 2. Class 7 is never reported.
C15_RoundedQuotient ==
    /\ (maskpc = "returned" /\ Len(mask) - Pixels(7) > 0) =>
          \A c \in 1..6 :
             LET d == percentages[artifact_classes[c]] * (Len(mask) - Pixels(7))
                         - Pixels(c) * 10000
             IN  /\ 2 * d <= Len(mask) - Pixels(7)
                 /\ -2 * d <= Len(mask) - Pixels(7)
    /\ (maskpc = "returned" /\ mask = ExampleMask) =>
          percentages["Tissue Fold"] = 5000
    /\ maskpc = "returned" =>
          /\ "Background" \notin DOMAIN percentages
          /\ DOMAIN percentages = SixClasses

\* One pixel in three is normal tissue: 33.33 is reported, not the third.
C15_Witness ==
    /\ maskpc = "returned"
    /\ mask = <<1, 2, 2>>
    /\ percentages["Normal Tissue"] = 3333
    /\ percentages["Tissue Fold"] = 6667

C17_LedgerHoldsOnlyCompleted ==
    /\ [](\A p \in processed_files :
             /\ Completed(p)
             /\ s1calls[p] >= 1
             /\ s2calls[p] >= 1)
    /\ [][processed_files \subseteq processed_files']_vars
    /\ [][\A p \in Paths :
             (p \in processed_files' /\ p \notin processed_files) =>
                /\ processed_files' = processed_files \cup {p}
                /\ log' = Logged(p, "completed")
                /\ \E t \in Threads :
                      /\ h[t].pc = "stage2"
                      /\ h[t].path = p
                      /\ h[t].stage1 = "exit0"
                      /\ h'[t] = Idle]_vars
    /\ [][(Len(log') > Len(log) /\ log'[Len(log')].outcome /= "completed")
             => processed_files' = processed_files]_vars

\* a.svs is in the ledger after both its stages exited 0, while b.SVS,
\* whose stage 1 exited 0 and whose stage 2 did not, is not.
C17_Witness ==
    /\ PathA \in processed_files
    /\ Last(PathA) = "completed"
    /\ Last(PathB) = "stage2failed"
    /\ s2calls[PathB] = 1
    /\ PathB \notin processed_files

\* The queues of one or two creation events.
PendingQueues ==
    UNION {[1..n -> Events] : n \in 1..2}

\* The watcher is running with one or two events waiting; a.svs either has
\* been handled to completion already or has not been seen.
HandlingInit ==
    /\ argc = 3
    /\ inputExists = TRUE
    /\ outputExists = TRUE
    /\ mainpc = "sleep"
    /\ observer = "running"
    /\ queue \in PendingQueues
    /\ h = [t \in Threads |-> Idle]
    /\ \E done \in BOOLEAN :
          /\ processed_files = IF done THEN {PathA} ELSE {}
          /\ log = IF done
                   THEN <<[path |-> PathA, outcome |-> "completed"]>>
                   ELSE << >>
          /\ s1calls = [p \in Paths |-> IF done /\ p = PathA THEN 1 ELSE 0]
          /\ s2calls = [p \in Paths |-> IF done /\ p = PathA THEN 1 ELSE 0]
          /\ emitted = Len(queue) + (IF done THEN 1 ELSE 0)
    /\ timeline = << >>
    /\ MaskIdle

\* The steps of the dispatch thread alone.
HandlingNext ==
    \E t \in Threads :
       \/ Dispatch(t)
       \/ Poll(t)
       \/ Stage1Exit(t)
       \/ Stage2Exit(t)

\* Every on_created call takes its next step: each poll of the stability
\* wait returns, and each invoked stage process exits.
FairHandlingSpec ==
    /\ HandlingInit
    /\ [][HandlingNext]_vars
    /\ \A t \in Threads :
          /\ WF_vars(Dispatch(t))
          /\ WF_vars(Poll(t))
          /\ WF_vars(Stage1Exit(t))
          /\ WF_vars(Stage2Exit(t))

\* The outcomes a handling can end with from each place it can be in.
EndsFrom(pc) ==
    CASE pc = "poll" -> {"unavailable"}
      [] pc = "stage1" -> {"stage1failed", "error"}
      [] pc = "stage2" -> {"stage2failed", "error", "completed"}
      [] OTHER -> {}

\* No reading is an error and each differs from the one before it.
EveryReadingDiffers(readings) ==
    /\ readings /= << >>
    /\ \A i \in 1..Len(readings) : readings[i] /= OSErr
    /\ \A i \in 2..Len(readings) : readings[i] /= readings[i - 1]

\* C18: when every poll returns and every invoked stage exits, a handling
\* that has started always ends; it ends with exactly one outcome logged
\* for its path (unavailable from the wait, a stage 1 failure from stage 1,
\* a stage 2 failure or completed from stage 2), and a skipped event logs
\* exactly one outcome too. The wait itself sets no limit: a reading that
\* differs from the one before keeps the call in the wait, and while every
\* reading has differed the call is still waiting.
C18_HandlingTerminates ==
    /\ \A t \in Threads :
          (h[t].pc \in {"poll", "stage1", "stage2"}) ~> (h[t].pc = "idle")
    /\ [][\A t \in Threads :
             (h[t].pc \in {"poll", "stage1", "stage2"} /\ h'[t].pc = "idle") =>
                /\ Len(log') = Len(log) + 1
                /\ SubSeq(log', 1, Len(log)) = log
                /\ log'[Len(log')].path = h[t].path
                /\ log'[Len(log')].outcome \in EndsFrom(h[t].pc)]_vars
    /\ [][log' /= log =>
             /\ Len(log') = Len(log) + 1
             /\ \/ \E t \in Threads :
                      /\ h[t].pc \in {"poll", "stage1", "stage2"}
                      /\ h'[t].pc = "idle"
                \/ /\ log'[Len(log')].outcome = "skipped"
                   /\ TakesEventFor(log'[Len(log')].path)]_vars
    /\ [][\A t \in Threads :
             (/\ h[t].pc = "poll"
              /\ Len(h'[t].readings) = Len(h[t].readings) + 1
              /\ h'[t].readings[Len(h'[t].readings)] \notin {h[t].file_size, OSErr})
                => /\ h'[t].pc = "poll"
                   /\ log' = log]_vars
    /\ [](\A t \in Threads :
             EveryReadingDiffers(h[t].readings) => h[t].pc = "poll")

\* After a.svs was handled to completion, a handling of b.SVS ended
\* unavailable, and another is still waiting after MaxPolls readings that
\* all differed.
C18_Witness ==
    /\ Last(PathA) = "completed"
    /\ Last(PathB) = "unavailable"
    /\ \E t \in Threads :
          /\ h[t].pc = "poll"
          /\ h[t].path = PathB
          /\ Len(h[t].readings) = MaxPolls
          /\ EveryReadingDiffers(h[t].readings)

====
